---- MODULE Spec2Model ----
(***************************************************************************)
(* A model of app.py: the Streamlit page that stages an uploaded PDF in a  *)
(* temporary file, rasterizes it, OCRs every page in order and renders the *)
(* joined text.  Strings are sequences of one-character strings.           *)
(***************************************************************************)
EXTENDS Integers, Sequences, FiniteSets, TLC

\* ------------------------------------------------------------------ bounds
MaxPages == 3     \* pages of an uploaded document
MaxClicks == 2    \* clicks of "Extract Text" on one uploaded file
MaxStem == 5      \* characters of a file name before its final ".pdf"

\* ------------------------------------------------------------ the documents
\* A byte of an upload: the header byte "H" of a well-formed PDF, a junk byte
\* "J", or one byte per page.  The page bytes name what the OCR engine makes
\* of the page: "A" a word, "L" a word and a line break, "W" white space,
\* "E" nothing, "X" a page the engine fails on.
PageBytes == {"A", "L", "W", "E", "X"}

SeqsUpTo(S, n) == UNION {[1..k -> S] : k \in 0..n}

Docs == {<<>>, <<"J">>} \cup {<<"H">> \o ps : ps \in SeqsUpTo(PageBytes, MaxPages)}

NameChars == {"a", ".", "p", "d", "f"}
DotPdf == <<".", "p", "d", "f">>
Names == {stem \o DotPdf : stem \in SeqsUpTo(NameChars, MaxStem)}

SmallDocs == {<<"H", "A">>, <<"H", "E">>, <<"H", "X">>}
SmallNames == {<<"a">> \o DotPdf}

\* ------------------------------------------------- the external libraries
\* convert_from_path: one image per page of a well-formed PDF, in page order;
\* raises on anything else (an empty file included).
WellFormed(bytes) ==
    /\ Len(bytes) >= 1
    /\ bytes[1] = "H"
    /\ \A k \in 2..Len(bytes) : bytes[k] \in PageBytes

PageImage(b) == <<"img", b>>

convert_from_path(bytes) == [k \in 1..(Len(bytes) - 1) |-> PageImage(bytes[k + 1])]

\* pytesseract.image_to_string: the text of one page image.
OcrFails(page) == page[2] = "X"

image_to_string(page) ==
    CASE page[2] = "A" -> <<"a">>
      [] page[2] = "L" -> <<"b", "\n">>
      [] page[2] = "W" -> <<" ">>
      [] OTHER -> <<>>

\* ------------------------------------------------------ string functions
Whitespace == {" ", "\n"}

\* A join that ends every part with the separator.
RECURSIVE JoinTrailing(_)
JoinTrailing(parts) ==
    IF Len(parts) = 0 THEN <<>>
    ELSE parts[1] \o <<"\n">> \o JoinTrailing(Tail(parts))

\* "\n".join(parts)
RECURSIVE Join(_)
Join(parts) ==
    IF Len(parts) = 0 THEN <<>>
    ELSE IF Len(parts) = 1 THEN parts[1]
    ELSE parts[1] \o <<"\n">> \o Join(Tail(parts))

RECURSIVE LStrip(_)
LStrip(s) == IF s # <<>> /\ s[1] \in Whitespace THEN LStrip(Tail(s)) ELSE s

RECURSIVE RStrip(_)
RStrip(s) ==
    IF s # <<>> /\ s[Len(s)] \in Whitespace THEN RStrip(SubSeq(s, 1, Len(s) - 1)) ELSE s

\* s.strip()
Strip(s) == RStrip(LStrip(s))

\* len(s.split()): the maximal runs of non-white-space characters
WordCount(s) ==
    Cardinality({k \in 1..Len(s) :
        /\ s[k] \notin Whitespace
        /\ (k = 1 \/ s[k - 1] \in Whitespace)})

\* len(s.split('\n'))
LineCount(s) == Cardinality({k \in 1..Len(s) : s[k] = "\n"}) + 1

StartsWith(s, old) == Len(s) >= Len(old) /\ SubSeq(s, 1, Len(old)) = old

\* s.replace(old, new): every non-overlapping occurrence, scanning from the left
RECURSIVE Replace(_, _, _)
Replace(s, old, new) ==
    IF s = <<>> THEN <<>>
    ELSE IF StartsWith(s, old)
         THEN new \o Replace(SubSeq(s, Len(old) + 1, Len(s)), old, new)
         ELSE <<s[1]>> \o Replace(Tail(s), old, new)

ExtractedSuffix ==
    <<"_", "e", "x", "t", "r", "a", "c", "t", "e", "d", ".", "t", "x", "t">>

\* f"{uploaded_file.name.replace('.pdf', '')}_extracted.txt"
DownloadName(n) == Replace(n, DotPdf, <<>>) \o ExtractedSuffix

\* ------------------------------------------------------------------ state
VARIABLES
    name,       \* uploaded_file.name
    content,    \* the bytes of the uploaded file
    pos,        \* the read position of the uploaded file object
    pc,         \* where main / pdf_to_text stands
    tmp,        \* the temporary file: "absent", "open", "closed", "deleted"
    tmpData,    \* the bytes in the temporary file
    data,       \* what pdf_file.read() returned
    pages,      \* the page images
    i,          \* the loop index of enumerate(pages, start=1)
    full_text,  \* the page texts collected so far
    exc,        \* the exception in flight, "none" when there is none
    returned,   \* pdf_to_text has executed its return statement
    ret,        \* the value it returned
    log,        \* what this call did to its collaborators, in order
    ui,         \* the elements main rendered for this click
    metrics,    \* the Characters / Words / Lines metrics shown
    download,   \* the file name of the download button
    clicks,     \* clicks of "Extract Text" so far
    outcomes,   \* the outcome of every finished call of pdf_to_text
    faulted     \* the environment made a call fail (I/O, UI or unlink error)

vars == <<name, content, pos, pc, tmp, tmpData, data, pages, i, full_text, exc,
          returned, ret, log, ui, metrics, download, clicks, outcomes, faulted>>

upload == <<name, content>>
locals == <<data, pages, i, full_text>>
shown == <<ui, metrics, download>>
session == <<clicks, outcomes>>

Ev(kind, a, b) == <<kind, a, b>>

Fresh ==
    /\ pos = 0
    /\ pc = "idle"
    /\ tmp = "absent"
    /\ tmpData = <<>>
    /\ data = <<>>
    /\ pages = <<>>
    /\ i = 0
    /\ full_text = <<>>
    /\ exc = "none"
    /\ returned = FALSE
    /\ ret = <<>>
    /\ log = <<>>
    /\ ui = {}
    /\ metrics = <<>>
    /\ download = <<>>
    /\ clicks = 0
    /\ outcomes = <<>>
    /\ faulted = FALSE

\* A file has been uploaded and the page is waiting for the button.
Init == content \in Docs /\ name \in SmallNames /\ Fresh

InitName == content \in SmallDocs /\ name \in Names /\ Fresh

\* ---------------------------------------------------------------- raising
\* An exception raised inside the with block, before the try statement: the
\* context manager closes the file (delete=False keeps it) and the exception
\* leaves pdf_to_text.
RaiseInWith(kind) ==
    /\ exc' = kind
    /\ tmp' = "closed"
    /\ pc' = "exited"

\* The try statement without its finally clause.
RaiseInTryNoFinally(kind) ==
    /\ exc' = kind
    /\ pc' = "exited"

\* The exception swallowed: the loop is left and what was collected is returned.
RaiseInTrySwallowed(kind) ==
    /\ exc' = exc
    /\ pc' = "return"

\* An exception raised inside the try statement runs the finally clause.
RaiseInTry(kind) ==
    /\ exc' = kind
    /\ pc' = "finally"

\* ------------------------------------------------------------------ main
\* st.button("Extract Text") is pressed: main calls pdf_to_text(uploaded_file).
Click ==
    /\ pc = "idle"
    /\ clicks < MaxClicks
    /\ clicks' = clicks + 1
    /\ pc' = "create"
    /\ tmp' = "absent"
    /\ tmpData' = <<>>
    /\ data' = <<>>
    /\ pages' = <<>>
    /\ i' = 0
    /\ full_text' = <<>>
    /\ exc' = "none"
    /\ returned' = FALSE
    /\ ret' = <<>>
    /\ log' = <<>>
    /\ ui' = {}
    /\ metrics' = <<>>
    /\ download' = <<>>
    /\ UNCHANGED <<upload, pos, outcomes, faulted>>

\* ------------------------------------------------------------ pdf_to_text
\* tempfile.NamedTemporaryFile(delete=False, suffix='.pdf')
CreateTmp ==
    /\ pc = "create"
    /\ tmp' = "open"
    /\ log' = Append(log, Ev("create", 0, 0))
    /\ pc' = "read"
    /\ UNCHANGED <<upload, pos, tmpData, locals, exc, returned, ret, shown, session, faulted>>

\* pdf_file.read(): everything from the read position on; the position moves
\* to the end of the stream.
ReadUpload ==
    /\ pc = "read"
    /\ \/ /\ data' = SubSeq(content, pos + 1, Len(content))
          /\ pos' = Len(content)
          /\ log' = Append(log, Ev("read", 0, 0))
          /\ pc' = "write"
          /\ UNCHANGED <<tmp, exc, faulted>>
       \/ /\ RaiseInWith("read")
          /\ faulted' = TRUE
          /\ UNCHANGED <<data, pos, log>>
    /\ UNCHANGED <<upload, tmpData, pages, i, full_text, returned, ret, shown, session>>

\* tmp_file.write(...)
WriteTmp ==
    /\ pc = "write"
    /\ \/ /\ tmpData' = data
          /\ log' = Append(log, Ev("write", 0, 0))
          /\ pc' = "close"
          /\ UNCHANGED <<tmp, exc, faulted>>
       \/ /\ RaiseInWith("write")
          /\ faulted' = TRUE
          /\ UNCHANGED <<tmpData, log>>
    /\ UNCHANGED <<upload, pos, locals, returned, ret, shown, session>>

\* The rest of the function run inside the with block: the file is still open.
CloseTmpStillOpen ==
    /\ pc = "close"
    /\ tmp' = "open"
    /\ log' = log
    /\ pc' = "raster"
    /\ UNCHANGED <<upload, pos, tmpData, locals, exc, returned, ret, shown, session, faulted>>

\* tmp_file_path = tmp_file.name, then the with block closes the file.
CloseTmp ==
    /\ pc = "close"
    /\ tmp' = "closed"
    /\ log' = Append(log, Ev("close", 0, 0))
    /\ pc' = "raster"
    /\ UNCHANGED <<upload, pos, tmpData, locals, exc, returned, ret, shown, session, faulted>>

\* pages = convert_from_path(tmp_file_path)
Rasterize ==
    /\ pc = "raster"
    /\ IF WellFormed(tmpData)
       THEN /\ pages' = convert_from_path(tmpData)
            /\ log' = Append(log, Ev("raster", Len(tmpData) - 1, 0))
            /\ pc' = "setup"
            /\ UNCHANGED exc
       ELSE /\ RaiseInTry("raster")
            /\ UNCHANGED <<pages, log>>
    /\ UNCHANGED <<upload, pos, tmp, tmpData, data, i, full_text, returned, ret, shown,
                   session, faulted>>

\* full_text = []; progress_bar = st.progress(0); status_text = st.empty()
Setup ==
    /\ pc = "setup"
    /\ full_text' = <<>>
    /\ \/ /\ pc' = "loop"
          /\ UNCHANGED <<exc, faulted>>
       \/ /\ RaiseInTry("ui")
          /\ faulted' = TRUE
    /\ UNCHANGED <<upload, pos, tmp, tmpData, data, pages, i, returned, ret, log, shown,
                   session>>

\* The loop with the OCR call first and no report before it.
LoopHeadNoReport ==
    /\ pc = "loop"
    /\ IF i < Len(pages)
       THEN i' = i + 1 /\ pc' = "ocr"
       ELSE i' = i /\ pc' = "complete"
    /\ UNCHANGED <<upload, pos, tmp, tmpData, data, pages, full_text, exc, returned, ret,
                   log, shown, session, faulted>>

\* for i, page in enumerate(pages, start=1)
LoopHead ==
    /\ pc = "loop"
    /\ IF i < Len(pages)
       THEN i' = i + 1 /\ pc' = "status"
       ELSE i' = i /\ pc' = "complete"
    /\ UNCHANGED <<upload, pos, tmp, tmpData, data, pages, full_text, exc, returned, ret,
                   log, shown, session, faulted>>

\* status_text.text(f"Processing page {i}/{len(pages)}...")
StatusText ==
    /\ pc = "status"
    /\ \/ /\ log' = Append(log, Ev("status", i, Len(pages)))
          /\ pc' = "progress"
          /\ UNCHANGED <<exc, faulted>>
       \/ /\ RaiseInTry("ui")
          /\ faulted' = TRUE
          /\ UNCHANGED log
    /\ UNCHANGED <<upload, pos, tmp, tmpData, locals, returned, ret, shown, session>>

\* The report with the index of enumerate(pages), counted from 0.
ProgressBarZeroBased ==
    /\ pc = "progress"
    /\ \/ /\ log' = Append(log, Ev("progress", i - 1, Len(pages)))
          /\ pc' = "ocr"
          /\ UNCHANGED <<exc, faulted>>
       \/ /\ RaiseInTry("ui")
          /\ faulted' = TRUE
          /\ UNCHANGED log
    /\ UNCHANGED <<upload, pos, tmp, tmpData, locals, returned, ret, shown, session>>

\* progress_bar.progress(i / len(pages))
ProgressBar ==
    /\ pc = "progress"
    /\ \/ /\ log' = Append(log, Ev("progress", i, Len(pages)))
          /\ pc' = "ocr"
          /\ UNCHANGED <<exc, faulted>>
       \/ /\ RaiseInTry("ui")
          /\ faulted' = TRUE
          /\ UNCHANGED log
    /\ UNCHANGED <<upload, pos, tmp, tmpData, locals, returned, ret, shown, session>>

\* text = pytesseract.image_to_string(page); full_text.append(text)
OcrPage ==
    /\ pc = "ocr"
    /\ IF OcrFails(pages[i])
       THEN /\ log' = Append(log, Ev("ocr", i, 0))
            /\ RaiseInTry("ocr")
            /\ UNCHANGED full_text
       ELSE /\ log' = log \o <<Ev("ocr", i, 0), Ev("ocrdone", i, 0)>>
            /\ full_text' = Append(full_text, image_to_string(pages[i]))
            /\ pc' = "loop"
            /\ UNCHANGED exc
    /\ UNCHANGED <<upload, pos, tmp, tmpData, data, pages, i, returned, ret, shown,
                   session, faulted>>

\* status_text.text("OCR processing complete!")
Complete ==
    /\ pc = "complete"
    /\ \/ /\ log' = Append(log, Ev("complete", 0, 0))
          /\ pc' = "return"
          /\ UNCHANGED <<exc, faulted>>
       \/ /\ RaiseInTry("ui")
          /\ faulted' = TRUE
          /\ UNCHANGED log
    /\ UNCHANGED <<upload, pos, tmp, tmpData, locals, returned, ret, shown, session>>

\* return "\n".join(full_text)
Return ==
    /\ pc = "return"
    /\ ret' = Join(full_text)
    /\ returned' = TRUE
    /\ pc' = "finally"
    /\ UNCHANGED <<upload, pos, tmp, tmpData, locals, exc, log, shown, session, faulted>>

\* finally: os.unlink(tmp_file_path).  An unlink that raises replaces the
\* return value or the exception in flight and leaves the file behind.
Finally ==
    /\ pc = "finally"
    /\ \/ /\ tmp' = "deleted"
          /\ log' = Append(log, Ev("unlink", 0, 0))
          /\ UNCHANGED <<exc, returned, ret, faulted>>
       \/ /\ exc' = "unlink"
          /\ returned' = FALSE
          /\ ret' = <<>>
          /\ faulted' = TRUE
          /\ UNCHANGED <<tmp, log>>
    /\ pc' = "exited"
    /\ UNCHANGED <<upload, pos, tmpData, locals, shown, session>>

\* ------------------------------------------------- main, after the call
\* The test without the strip: if extracted_text:
HasTextNoStrip(text) == text # <<>>

\* if extracted_text.strip():
HasText(text) == Strip(text) # <<>>

Outcome ==
    IF exc # "none" THEN [kind |-> "raise", value |-> <<exc>>]
    ELSE [kind |-> "return", value |-> ret]

\* The try / except around the call, and what it renders.
MainHandle ==
    /\ pc = "exited"
    /\ outcomes' = Append(outcomes, Outcome)
    /\ IF exc # "none"
       THEN /\ ui' = {"error", "info"}
            /\ UNCHANGED <<metrics, download>>
       ELSE IF HasText(ret)
            THEN /\ ui' = {"success", "metrics", "text_area", "download_button"}
                 /\ metrics' = <<Len(ret), WordCount(ret), LineCount(ret)>>
                 /\ download' = DownloadName(name)
            ELSE /\ ui' = {"warning"}
                 /\ UNCHANGED <<metrics, download>>
    /\ pc' = "idle"
    /\ UNCHANGED <<upload, pos, tmp, tmpData, locals, exc, returned, ret, log, clicks,
                   faulted>>

Next ==
    \/ Click
    \/ CreateTmp
    \/ ReadUpload
    \/ WriteTmp
    \/ CloseTmp
    \/ Rasterize
    \/ Setup
    \/ LoopHead
    \/ StatusText
    \/ ProgressBar
    \/ OcrPage
    \/ Complete
    \/ Return
    \/ Finally
    \/ MainHandle

Spec == Init /\ [][Next]_vars

SpecName == InitName /\ [][Next]_vars

\* ------------------------------------------------------------ properties
Exited == pc = "exited"

\* The events of one kind, in the order they happened.
Sel(kind) == SelectSeq(log, LAMBDA e : e[1] = kind)

Pos(kind) == {p \in 1..Len(log) : log[p][1] = kind}

\* The pages of the uploaded document and the text the OCR engine has for each.
NumPages == Len(content) - 1
PageText(k) == image_to_string(PageImage(content[k + 1]))

\* Where the text of page j starts in the result, counted from 0.
RECURSIVE Offset(_)
Offset(j) == IF j <= 1 THEN 0 ELSE Offset(j - 1) + Len(PageText(j - 1)) + 1

IsBlank(s) == \A k \in 1..Len(s) : s[k] \in Whitespace

Reports(kind, n, total) == [k \in 1..n |-> Ev(kind, k, total)]

\* C1: a call that returns, returns the page texts in page order with exactly
\* one "\n" at every page boundary: none leading, none trailing, empty page
\* texts kept, and the empty string for a document of no pages.
C1_ResultIsJoin ==
    (Exited /\ returned) =>
        /\ Len(ret) = (IF NumPages = 0 THEN 0 ELSE Offset(NumPages + 1) - 1)
        /\ \A j \in 1..NumPages :
              /\ SubSeq(ret, Offset(j) + 1, Offset(j) + Len(PageText(j))) = PageText(j)
              /\ j < NumPages => ret[Offset(j) + Len(PageText(j)) + 1] = "\n"

C1_Witness ==
    /\ Exited
    /\ returned
    /\ content = <<"H", "A", "E", "L">>
    /\ ret = <<"a", "\n", "\n", "b", "\n">>

\* C2: a call that returns has reported progress exactly N times, for the
\* pages 1, 2, ..., N in this order, with the total N in every report.
C2_ProgressOncePerPage ==
    (Exited /\ returned) =>
        /\ Sel("progress") = Reports("progress", NumPages, NumPages)
        /\ Sel("status") = Reports("status", NumPages, NumPages)

C2_Witness ==
    /\ Exited
    /\ returned
    /\ NumPages = 3
    /\ Len(Sel("progress")) = 3

\* C3: when the call ends by returning, by rasterization raising, by OCR
\* raising or by a progress or status update raising, the temporary file that
\* was staged is gone.
C3_TempFileGone ==
    (Exited /\ (returned \/ exc \in {"raster", "ocr", "ui"})) => tmp = "deleted"

C3_Witness ==
    /\ Exited
    /\ exc = "ocr"
    /\ i = 2
    /\ tmp = "deleted"

\* The first page the OCR engine fails on, 0 when there is none.
FirstBad(ps) ==
    IF \E k \in 1..Len(ps) : OcrFails(ps[k])
    THEN CHOOSE k \in 1..Len(ps) : OcrFails(ps[k]) /\ \A m \in 1..(k - 1) : ~OcrFails(ps[m])
    ELSE 0

\* C4: when the staged bytes do not rasterize, or OCR fails on page k, the
\* call ends with an exception and returns no string; OCR was invoked on the
\* pages 1..k at most, each once, in order, and on all of them and no more
\* when nothing else failed first.
C4_FailureReturnsNothing ==
    Exited =>
        /\ ~WellFormed(tmpData) =>
              /\ exc # "none"
              /\ ~returned
              /\ Sel("ocr") = <<>>
        /\ (WellFormed(tmpData) /\ FirstBad(convert_from_path(tmpData)) > 0) =>
              LET k == FirstBad(convert_from_path(tmpData)) IN
              /\ exc # "none"
              /\ ~returned
              /\ Len(Sel("ocr")) <= k
              /\ Sel("ocr") = Reports("ocr", Len(Sel("ocr")), 0)
              /\ exc \in {"ocr", "ui", "unlink"}
              /\ exc = "ocr" => Len(Sel("ocr")) = k

C4_Witness ==
    /\ Exited
    /\ content = <<"H", "A", "X", "A">>
    /\ exc = "ocr"
    /\ ~returned
    /\ Sel("ocr") = <<Ev("ocr", 1, 0), Ev("ocr", 2, 0)>>

\* C5: a second call on the same uploaded file object ends as the first one
\* did, when the environment made neither call fail.
C5_SecondCallSameOutcome ==
    (Len(outcomes) >= 2 /\ ~faulted) => outcomes[2] = outcomes[1]

\* C6 as claimed: every progress report for page i comes after the OCR of
\* page i has returned.
C6_ProgressAfterOcr ==
    \A p \in Pos("progress") :
        \E q \in 1..(p - 1) : log[q] = Ev("ocrdone", log[p][2], 0)

\* C6 as amended: progress for page i is reported before the OCR of page i is
\* invoked and after the OCR of page i-1 has returned, so when OCR fails on
\* page k the reports made are exactly those for the pages 1..k.
C6_ProgressBeforeOcr ==
    /\ \A p \in Pos("ocr") :
          \E q \in 1..(p - 1) : log[q] = Ev("progress", log[p][2], Len(pages))
    /\ \A p \in Pos("progress") :
          /\ \A q \in 1..(p - 1) : log[q][1] \in {"ocr", "ocrdone"} => log[q][2] < log[p][2]
          /\ log[p][2] > 1 =>
                \E q \in 1..(p - 1) : log[q] = Ev("ocrdone", log[p][2] - 1, 0)
    /\ (Exited /\ exc = "ocr") =>
          /\ OcrFails(pages[i])
          /\ Sel("progress") = Reports("progress", i, Len(pages))

C6_Witness ==
    /\ Exited
    /\ exc = "ocr"
    /\ i = 2
    /\ Sel("progress") = <<Ev("progress", 1, 3), Ev("progress", 2, 3)>>

\* C7: when reading the upload or writing it to the temporary file raises,
\* the temporary file does not exist once the call has ended.
C7_StagingFailureLeavesNoFile ==
    (Exited /\ exc \in {"read", "write"}) => tmp \notin {"open", "closed"}

\* C8: a click ends in exactly one of an error, a warning and a success: the
\* error when the call raised, the warning when it returned only white space
\* or nothing, the success with the text and the download otherwise; the call
\* is made once per click.
Last == outcomes[Len(outcomes)]

C8_OneOutcomePerClick ==
    (pc = "idle" /\ clicks > 0) =>
        /\ Len(outcomes) = clicks
        /\ Len(Sel("create")) <= 1
        /\ Cardinality(ui \cap {"error", "warning", "success"}) = 1
        /\ "error" \in ui <=> Last.kind = "raise"
        /\ "warning" \in ui <=> (Last.kind = "return" /\ IsBlank(Last.value))
        /\ "success" \in ui <=> (Last.kind = "return" /\ ~IsBlank(Last.value))
        /\ "success" \in ui => {"text_area", "download_button"} \subseteq ui
        /\ "success" \notin ui => ui \cap {"text_area", "download_button"} = {}

C8_Witness ==
    /\ pc = "idle"
    /\ Len(outcomes) = 1
    /\ content = <<"H", "E", "W", "E">>
    /\ Last = [kind |-> "return", value |-> <<"\n", " ", "\n">>]
    /\ ui = {"warning"}

\* C9: the download is named after the upload with only its final ".pdf"
\* removed, followed by "_extracted.txt".
C9_OnlyTrailingPdfRemoved ==
    download # <<>> => download = SubSeq(name, 1, Len(name) - 4) \o ExtractedSuffix

\* C10: the steps of one call are strictly ordered: the temporary file is
\* written and closed before rasterization, rasterization is over before the
\* first OCR call, the pages are OCR'd one at a time in order and at most
\* once, and the file is deleted only after the last OCR call has returned or
\* the call has failed, with nothing done after it.
C10_StrictOrder ==
    /\ pc = "raster" =>
          /\ tmp = "closed"
          /\ tmpData = data
          /\ \E w \in Pos("write") : \E c \in Pos("close") : w < c
    /\ \A p \in Pos("raster") : \E c \in Pos("close") : c < p
    /\ \A p \in Pos("ocr") :
          /\ \E r \in Pos("raster") : r < p /\ log[r][2] = Len(pages)
          /\ tmp = "closed" \/ \E u \in Pos("unlink") : p < u
          /\ log[p][2] > 1 =>
                \E q \in 1..(p - 1) : log[q] = Ev("ocrdone", log[p][2] - 1, 0)
    /\ Len(Sel("ocr")) <= Len(pages)
    /\ Sel("ocr") = Reports("ocr", Len(Sel("ocr")), 0)
    /\ \A u \in Pos("unlink") :
          /\ u = Len(log)
          /\ exc # "none" \/ Sel("ocrdone") = Reports("ocrdone", Len(pages), 0)
    /\ tmp = "deleted" <=> Pos("unlink") # {}

C10_Witness ==
    /\ Exited
    /\ returned
    /\ Len(pages) = 3
    /\ tmp = "deleted"
    /\ log[Len(log)] = Ev("unlink", 0, 0)

====
